---- MODULE Spec2Model ----
(***************************************************************************)
(* Model of the Azure Event Hub scaler (src/unnamed/part_000): the lag     *)
(* calculator calculateUnprocessedEvents, the per-partition count          *)
(* GetUnprocessedEventCountInPartition, the partition cap                  *)
(* getTotalLagRelatedToPartitionAmount and the query                       *)
(* GetMetricsAndActivity.                                                  *)
(*                                                                         *)
(* Go's int64 is modelled as a two's-complement word of IntBits bits: every*)
(* arithmetic result is wrapped into MinInt64..MaxInt64 the way the        *)
(* hardware wraps it into 64 bits.                                         *)
(***************************************************************************)
EXTENDS Integers, Sequences, FiniteSets

VARIABLES
    metadata,                    \* eventHubMetadata: threshold, activationThreshold, stalePartitionInfoThreshold
    pc,                          \* position of the running call
    hubErr,                      \* GetRuntimeInformation returned an error
    partitionCount,              \* len(partitionIDs)
    i,                           \* loop index of GetMetricsAndActivity
    totalUnprocessedEventCount,  \* the running int64 sum, then the clamped aggregate
    partitionRuntimeInfo,        \* reply of GetPartitionInformation for partition i
    checkpointReply,             \* what the checkpoint store answers for partition i
    unprocessedEventCount,       \* count of the partition just processed
    checkpointFetches,           \* number of calls of GetCheckpointFromBlobStorage so far
    lagRelatedToPartitionCount,  \* outcome of getTotalLagRelatedToPartitionAmount
    result,                      \* what GetMetricsAndActivity returned
    exactSum,                    \* history: the unbounded sum of the per-partition counts
    nonNegative,                 \* history: every per-partition count so far was >= 0
    streamSummary                \* reply of DescribeStreamSummary (shard-count scaler)

vars == <<metadata, pc, hubErr, partitionCount, i, totalUnprocessedEventCount,
          partitionRuntimeInfo, checkpointReply, unprocessedEventCount,
          checkpointFetches, lagRelatedToPartitionCount, result, exactSum, nonNegative,
          streamSummary>>

----------------------------------------------------------------------------
(* Bounds *)

IntBits == 6

MaxPartitions == 3

MaxOpenShards == 4

----------------------------------------------------------------------------
(* int64 arithmetic *)

Pow2(n) == 2 ^ n

MaxInt64 == Pow2(IntBits - 1) - 1

MinInt64 == -MaxInt64 - 1

Int64 == MinInt64 .. MaxInt64

\* the value an int64 variable holds after an operation whose exact result is x
Wrap(x) == ((x - MinInt64) % Pow2(IntBits)) + MinInt64

Abs(x) == IF x < 0 THEN -x ELSE x

\* Go's a / b on int64 for b # 0: the quotient truncated toward zero
Quo(a, b) ==
    LET q == Abs(a) \div Abs(b)
    IN  Wrap(IF (a < 0) = (b < 0) THEN q ELSE -q)

----------------------------------------------------------------------------
(* Data *)

EmptyPartitionOffset == "-1"

NoCheckpoint == [Offset |-> "", SequenceNumber |-> 0]

NoInfo == [kind |-> "none", BeginningSequenceNumber |-> 0, LastSequenceNumber |-> 0,
           LastEnqueuedOffset |-> EmptyPartitionOffset]

NoReply == [kind |-> "none", checkpoint |-> NoCheckpoint]

NoLag == [panic |-> FALSE, value |-> 0]

NoResult == [kind |-> "none", metrics |-> <<>>, active |-> FALSE]

NoSummary == [kind |-> "none", OpenShardCount |-> 0]

----------------------------------------------------------------------------
(* The lag calculator *)

\* rawUnprocessedEventCount counting the checkpointed event as unprocessed
rawUnprocessedEventCount_OffByOne(partitionInfo, checkpoint) ==
    IF partitionInfo.LastSequenceNumber >= checkpoint.SequenceNumber
    THEN Wrap(Wrap(partitionInfo.LastSequenceNumber - checkpoint.SequenceNumber) + 1)
    ELSE Wrap(Wrap(MaxInt64 - checkpoint.SequenceNumber) + partitionInfo.LastSequenceNumber)

\* rawUnprocessedEventCount measuring the wrapped distance from the wrong end
rawUnprocessedEventCount_Swapped(partitionInfo, checkpoint) ==
    IF partitionInfo.LastSequenceNumber >= checkpoint.SequenceNumber
    THEN Wrap(partitionInfo.LastSequenceNumber - checkpoint.SequenceNumber)
    ELSE Wrap(Wrap(MaxInt64 - partitionInfo.LastSequenceNumber) + checkpoint.SequenceNumber)

\* lines 316-330: the count before the staleness guard, for a checkpoint with an offset
rawUnprocessedEventCount(partitionInfo, checkpoint) ==
    IF partitionInfo.LastSequenceNumber >= checkpoint.SequenceNumber
    THEN Wrap(partitionInfo.LastSequenceNumber - checkpoint.SequenceNumber)
    ELSE Wrap(Wrap(MaxInt64 - checkpoint.SequenceNumber) + partitionInfo.LastSequenceNumber)

\* calculateUnprocessedEvents whose guard forgets the stale-partition threshold
calculateUnprocessedEvents_NoThreshold(partitionInfo, checkpoint, stalePartitionInfoThreshold) ==
    IF checkpoint.Offset = ""
    THEN Wrap(partitionInfo.LastSequenceNumber + 1)
    ELSE LET count == rawUnprocessedEventCount(partitionInfo, checkpoint)
         IN  IF count > MaxInt64 THEN 0 ELSE count

\* calculateUnprocessedEvents reading an empty offset as a checkpoint at its sequence number
calculateUnprocessedEvents_OffsetIgnored(partitionInfo, checkpoint, stalePartitionInfoThreshold) ==
    LET count == rawUnprocessedEventCount(partitionInfo, checkpoint)
    IN  IF count > Wrap(MaxInt64 - stalePartitionInfoThreshold) THEN 0 ELSE count

\* lines 305-339
calculateUnprocessedEvents(partitionInfo, checkpoint, stalePartitionInfoThreshold) ==
    IF checkpoint.Offset = ""
    THEN Wrap(partitionInfo.LastSequenceNumber + 1)
    ELSE LET count == rawUnprocessedEventCount(partitionInfo, checkpoint)
         IN  IF count > Wrap(MaxInt64 - stalePartitionInfoThreshold) THEN 0 ELSE count

GetUnprocessedEventCountWithoutCheckpoint(partitionInfo) ==
    IF \/ (partitionInfo.BeginningSequenceNumber = 0 /\ partitionInfo.LastSequenceNumber = 0)
       \/ partitionInfo.BeginningSequenceNumber # partitionInfo.LastSequenceNumber
    THEN Wrap(Wrap(partitionInfo.LastSequenceNumber - partitionInfo.BeginningSequenceNumber) + 1)
    ELSE 0

\* GetUnprocessedEventCountInPartition without the test for the empty partition
GetUnprocessedEventCountInPartition_NoSentinel(partitionInfo, reply, stalePartitionInfoThreshold) ==
    IF reply.kind = "notFound"
    THEN [newEventCount |-> GetUnprocessedEventCountWithoutCheckpoint(partitionInfo),
          err |-> FALSE, fetched |-> TRUE]
    ELSE IF reply.kind = "error"
    THEN [newEventCount |-> -1, err |-> TRUE, fetched |-> TRUE]
    ELSE [newEventCount |-> calculateUnprocessedEvents(partitionInfo, reply.checkpoint,
                                                       stalePartitionInfoThreshold),
          err |-> FALSE, fetched |-> TRUE]

\* GetUnprocessedEventCountInPartition failing on every error of the checkpoint store
GetUnprocessedEventCountInPartition_NotFoundFails(partitionInfo, reply, stalePartitionInfoThreshold) ==
    IF partitionInfo.kind = "none" \/ partitionInfo.LastEnqueuedOffset = EmptyPartitionOffset
    THEN [newEventCount |-> 0, err |-> FALSE, fetched |-> FALSE]
    ELSE IF reply.kind \in {"notFound", "error"}
    THEN [newEventCount |-> -1, err |-> TRUE, fetched |-> TRUE]
    ELSE [newEventCount |-> calculateUnprocessedEvents(partitionInfo, reply.checkpoint,
                                                       stalePartitionInfoThreshold),
          err |-> FALSE, fetched |-> TRUE]

\* lines 281-303.
\* reply is what GetCheckpointFromBlobStorage answers if it is called: "ok" with a
\* checkpoint, "notFound" (an error wrapping a storage error whose service code is
\* BlobNotFound or ContainerNotFound, the one case lines 290-292 recognise) or "error"
\* (any other error). fetched tells whether it was called.
GetUnprocessedEventCountInPartition(partitionInfo, reply, stalePartitionInfoThreshold) ==
    IF partitionInfo.kind = "none" \/ partitionInfo.LastEnqueuedOffset = EmptyPartitionOffset
    THEN [newEventCount |-> 0, err |-> FALSE, fetched |-> FALSE]
    ELSE IF reply.kind = "notFound"
    THEN [newEventCount |-> GetUnprocessedEventCountWithoutCheckpoint(partitionInfo),
          err |-> FALSE, fetched |-> TRUE]
    ELSE IF reply.kind = "error"
    THEN [newEventCount |-> -1, err |-> TRUE, fetched |-> TRUE]
    ELSE [newEventCount |-> calculateUnprocessedEvents(partitionInfo, reply.checkpoint,
                                                       stalePartitionInfoThreshold),
          err |-> FALSE, fetched |-> TRUE]

\* unprocessedEventsCount / threshold panics (integer divide by zero) when threshold = 0
getTotalLagRelatedToPartitionAmount(unprocessedEventsCount, count, threshold) ==
    IF threshold = 0
    THEN [panic |-> TRUE, value |-> 0]
    ELSE IF Quo(unprocessedEventsCount, threshold) > count
    THEN [panic |-> FALSE, value |-> Wrap(count * threshold)]
    ELSE [panic |-> FALSE, value |-> unprocessedEventsCount]

\* the aggregation without the clamp of a negative sum
clampTotal_NoClamp(total) == total

\* lines 414-418: a negative sum is replaced by math.MaxInt64
clampTotal(total) == IF total < 0 THEN MaxInt64 ELSE total

\* the activation test with >= for >
isActive_Inclusive(total, lag, activationThreshold) == total >= activationThreshold

\* line 427: totalUnprocessedEventCount > s.metadata.activationThreshold
isActive(total, lag, activationThreshold) == total > activationThreshold

----------------------------------------------------------------------------
(* Inputs *)

\* sequence numbers the stream service and the checkpoint store report in a query
SeqNumbers == {0, 1, MaxInt64}

Thresholds == {-1, 0, 2}

ActivationThresholds == {-1, 2}

StaleThresholds == {0, 2}

CheckpointOffsets == {"", "8"}

\* runtime states of partitions that hold events: beginning <= last, an offset
InfoOver(seqs) ==
    {p \in [kind : {"ok"}, BeginningSequenceNumber : seqs, LastSequenceNumber : seqs,
            LastEnqueuedOffset : {"8"}] :
        p.BeginningSequenceNumber <= p.LastSequenceNumber}

\* runtime states of empty partitions: the sentinel offset "-1"
EmptyInfoOver(seqs) ==
    [kind : {"ok"}, BeginningSequenceNumber : {0}, LastSequenceNumber : seqs,
     LastEnqueuedOffset : {EmptyPartitionOffset}]

CheckpointOver(seqs) == [Offset : CheckpointOffsets, SequenceNumber : seqs]

InfoReplies ==
    InfoOver(SeqNumbers) \cup EmptyInfoOver(SeqNumbers)
        \cup {[NoInfo EXCEPT !.kind = "error"]}

CheckpointReplies ==
    [kind : {"ok"}, checkpoint : CheckpointOver(SeqNumbers)]
        \cup {[NoReply EXCEPT !.kind = "notFound"], [NoReply EXCEPT !.kind = "error"]}

ErrorResult == [kind |-> "error", metrics |-> <<>>, active |-> FALSE]

----------------------------------------------------------------------------
(* GetMetricsAndActivity *)

Init ==
    /\ metadata \in [threshold : Thresholds, activationThreshold : ActivationThresholds,
                     stalePartitionInfoThreshold : StaleThresholds]
    /\ pc = "start"
    /\ hubErr = FALSE
    /\ partitionCount = 0
    /\ i = 0
    /\ totalUnprocessedEventCount = 0
    /\ partitionRuntimeInfo = NoInfo
    /\ checkpointReply = NoReply
    /\ unprocessedEventCount = 0
    /\ checkpointFetches = 0
    /\ lagRelatedToPartitionCount = NoLag
    /\ result = NoResult
    /\ exactSum = 0
    /\ nonNegative = TRUE
    /\ streamSummary = NoSummary

\* lines 387-392: s.client.GetRuntimeInformation fails
GetRuntimeInformationFails ==
    /\ pc = "start"
    /\ hubErr' = TRUE
    /\ result' = ErrorResult
    /\ pc' = "done"
    /\ UNCHANGED <<streamSummary, metadata, partitionCount, i, totalUnprocessedEventCount,
                   partitionRuntimeInfo, checkpointReply, unprocessedEventCount,
                   checkpointFetches, lagRelatedToPartitionCount, exactSum, nonNegative>>

\* lines 387-392: s.client.GetRuntimeInformation answers n partition ids
GetRuntimeInformation(n) ==
    /\ pc = "start"
    /\ partitionCount' = n
    /\ i' = 0
    /\ pc' = "loop"
    /\ UNCHANGED <<streamSummary, metadata, hubErr, totalUnprocessedEventCount, partitionRuntimeInfo,
                   checkpointReply, unprocessedEventCount, checkpointFetches,
                   lagRelatedToPartitionCount, result, exactSum, nonNegative>>

\* lines 394-412: one iteration of the loop over partitionIDs
LoopIteration(info, reply) ==
    /\ pc = "loop"
    /\ i < partitionCount
    /\ partitionRuntimeInfo' = info
    /\ IF info.kind = "error"
       THEN /\ result' = ErrorResult
            /\ pc' = "done"
            /\ checkpointReply' = NoReply
            /\ UNCHANGED <<i, totalUnprocessedEventCount, unprocessedEventCount,
                           checkpointFetches, exactSum, nonNegative>>
       ELSE LET r == GetUnprocessedEventCountInPartition(info, reply,
                         metadata.stalePartitionInfoThreshold)
            IN  /\ checkpointReply' = reply
                /\ checkpointFetches' = checkpointFetches + (IF r.fetched THEN 1 ELSE 0)
                /\ unprocessedEventCount' = r.newEventCount
                /\ IF r.err
                   THEN /\ result' = ErrorResult
                        /\ pc' = "done"
                        /\ UNCHANGED <<i, totalUnprocessedEventCount, exactSum, nonNegative>>
                   ELSE /\ totalUnprocessedEventCount' =
                               Wrap(totalUnprocessedEventCount + r.newEventCount)
                        /\ exactSum' = exactSum + r.newEventCount
                        /\ nonNegative' = (nonNegative /\ r.newEventCount >= 0)
                        /\ i' = i + 1
                        /\ UNCHANGED <<result, pc>>
    /\ UNCHANGED <<streamSummary, metadata, hubErr, partitionCount, lagRelatedToPartitionCount>>

\* lines 414-427: the loop is over: clamp, cap, emit
Finish ==
    /\ pc = "loop"
    /\ i = partitionCount
    /\ LET total == clampTotal(totalUnprocessedEventCount)
           lag == getTotalLagRelatedToPartitionAmount(total, partitionCount,
                                                      metadata.threshold)
       IN  /\ totalUnprocessedEventCount' = total
           /\ lagRelatedToPartitionCount' = lag
           /\ result' = IF lag.panic
                        THEN [kind |-> "panic", metrics |-> <<>>, active |-> FALSE]
                        ELSE [kind |-> "ok", metrics |-> <<lag.value>>,
                              active |-> isActive(total, lag.value, metadata.activationThreshold)]
    /\ pc' = "done"
    /\ UNCHANGED <<streamSummary, metadata, hubErr, partitionCount, i, partitionRuntimeInfo,
                   checkpointReply, unprocessedEventCount, checkpointFetches,
                   exactSum, nonNegative>>

Next ==
    \/ GetRuntimeInformationFails
    \/ \E n \in 0 .. MaxPartitions : GetRuntimeInformation(n)
    \/ \E info \in InfoReplies, reply \in CheckpointReplies : LoopIteration(info, reply)
    \/ Finish

Spec == Init /\ [][Next]_vars

----------------------------------------------------------------------------
(* calculateUnprocessedEvents alone, over every sequence number and threshold *)

InitCalc ==
    /\ metadata \in [threshold : {1}, activationThreshold : {0},
                     stalePartitionInfoThreshold : Int64]
    /\ pc = "calc"
    /\ hubErr = FALSE
    /\ partitionCount = 1
    /\ i = 0
    /\ totalUnprocessedEventCount = 0
    /\ partitionRuntimeInfo \in
           [kind : {"ok"}, BeginningSequenceNumber : {0},
            LastSequenceNumber : 0 .. MaxInt64, LastEnqueuedOffset : {"8"}]
    /\ checkpointReply \in [kind : {"ok"}, checkpoint : CheckpointOver(0 .. MaxInt64)]
    /\ unprocessedEventCount = 0
    /\ checkpointFetches = 1
    /\ lagRelatedToPartitionCount = NoLag
    /\ result = NoResult
    /\ exactSum = 0
    /\ nonNegative = TRUE
    /\ streamSummary = NoSummary

\* line 300: the call of calculateUnprocessedEvents
CallCalculateUnprocessedEvents ==
    /\ pc = "calc"
    /\ unprocessedEventCount' =
           calculateUnprocessedEvents(partitionRuntimeInfo, checkpointReply.checkpoint,
                                      metadata.stalePartitionInfoThreshold)
    /\ pc' = "calcDone"
    /\ UNCHANGED <<streamSummary, metadata, hubErr, partitionCount, i, totalUnprocessedEventCount,
                   partitionRuntimeInfo, checkpointReply, checkpointFetches,
                   lagRelatedToPartitionCount, result, exactSum, nonNegative>>

NextCalc == CallCalculateUnprocessedEvents

SpecCalc == InitCalc /\ [][NextCalc]_vars

----------------------------------------------------------------------------
(* getTotalLagRelatedToPartitionAmount alone, over every total, count and threshold *)

InitLag ==
    /\ metadata \in [threshold : Int64, activationThreshold : {0},
                     stalePartitionInfoThreshold : {0}]
    /\ pc = "lag"
    /\ hubErr = FALSE
    /\ partitionCount \in 0 .. MaxInt64
    /\ i = partitionCount
    /\ totalUnprocessedEventCount \in 0 .. MaxInt64
    /\ partitionRuntimeInfo = NoInfo
    /\ checkpointReply = NoReply
    /\ unprocessedEventCount = 0
    /\ checkpointFetches = 0
    /\ lagRelatedToPartitionCount = NoLag
    /\ result = NoResult
    /\ exactSum = totalUnprocessedEventCount
    /\ nonNegative = TRUE
    /\ streamSummary = NoSummary

\* line 421: the call of getTotalLagRelatedToPartitionAmount
CallGetTotalLagRelatedToPartitionAmount ==
    /\ pc = "lag"
    /\ lagRelatedToPartitionCount' =
           getTotalLagRelatedToPartitionAmount(totalUnprocessedEventCount, partitionCount,
                                               metadata.threshold)
    /\ pc' = "lagDone"
    /\ UNCHANGED <<streamSummary, metadata, hubErr, partitionCount, i, totalUnprocessedEventCount,
                   partitionRuntimeInfo, checkpointReply, unprocessedEventCount,
                   checkpointFetches, result, exactSum, nonNegative>>

NextLag == CallGetTotalLagRelatedToPartitionAmount

SpecLag == InitLag /\ [][NextLag]_vars

----------------------------------------------------------------------------
(* The shard-count scaler (src/pkg/scalers/aws_kinesis_stream_scaler.go) *)

targetShardCountDefault == 2

\* lines 175-186: -1 and the error when DescribeStreamSummary fails, else the open
\* shard count (an int32 widened to int64)
GetAwsKinesisOpenShardCount(summary) ==
    IF summary.kind = "error"
    THEN [shardCount |-> -1, err |-> TRUE]
    ELSE [shardCount |-> summary.OpenShardCount, err |-> FALSE]

\* the shard-count query with >= for > in the activation test
awsKinesisGetMetricsAndActivity_Inclusive(summary, activationTargetShardCount) ==
    LET r == GetAwsKinesisOpenShardCount(summary)
    IN  IF r.err
        THEN ErrorResult
        ELSE [kind |-> "ok", metrics |-> <<r.shardCount>>,
              active |-> r.shardCount >= activationTargetShardCount]

\* lines 161-172: awsKinesisStreamScaler.GetMetricsAndActivity
awsKinesisGetMetricsAndActivity(summary, activationTargetShardCount) ==
    LET r == GetAwsKinesisOpenShardCount(summary)
    IN  IF r.err
        THEN ErrorResult
        ELSE [kind |-> "ok", metrics |-> <<r.shardCount>>,
              active |-> r.shardCount > activationTargetShardCount]

InitKinesis ==
    /\ metadata \in [targetShardCount : {targetShardCountDefault},
                     activationTargetShardCount : Int64]
    /\ pc = "kinesis"
    /\ hubErr = FALSE
    /\ partitionCount = 0
    /\ i = 0
    /\ totalUnprocessedEventCount = 0
    /\ partitionRuntimeInfo = NoInfo
    /\ checkpointReply = NoReply
    /\ unprocessedEventCount = 0
    /\ checkpointFetches = 0
    /\ lagRelatedToPartitionCount = NoLag
    /\ result = NoResult
    /\ exactSum = 0
    /\ nonNegative = TRUE
    /\ streamSummary = NoSummary

\* lines 161-167 and 180-183: DescribeStreamSummary fails
DescribeStreamSummaryFails ==
    /\ pc = "kinesis"
    /\ streamSummary' = [NoSummary EXCEPT !.kind = "error"]
    /\ result' = awsKinesisGetMetricsAndActivity(streamSummary',
                                                 metadata.activationTargetShardCount)
    /\ pc' = "kinesisDone"
    /\ UNCHANGED <<metadata, hubErr, partitionCount, i, totalUnprocessedEventCount,
                   partitionRuntimeInfo, checkpointReply, unprocessedEventCount,
                   checkpointFetches, lagRelatedToPartitionCount, exactSum, nonNegative>>

\* lines 161-172 and 180-185: DescribeStreamSummary answers with n open shards
DescribeStreamSummary(n) ==
    /\ pc = "kinesis"
    /\ streamSummary' = [kind |-> "ok", OpenShardCount |-> n]
    /\ result' = awsKinesisGetMetricsAndActivity(streamSummary',
                                                 metadata.activationTargetShardCount)
    /\ pc' = "kinesisDone"
    /\ UNCHANGED <<metadata, hubErr, partitionCount, i, totalUnprocessedEventCount,
                   partitionRuntimeInfo, checkpointReply, unprocessedEventCount,
                   checkpointFetches, lagRelatedToPartitionCount, exactSum, nonNegative>>

NextKinesis ==
    \/ DescribeStreamSummaryFails
    \/ \E n \in 0 .. MaxOpenShards : DescribeStreamSummary(n)

SpecKinesis == InitKinesis /\ [][NextKinesis]_vars

----------------------------------------------------------------------------
(* GetUnprocessedEventCountWithoutCheckpoint alone, over every pair of sequence numbers *)

InitFallback ==
    /\ metadata \in [threshold : {1}, activationThreshold : {0},
                     stalePartitionInfoThreshold : {0}]
    /\ pc = "fallback"
    /\ hubErr = FALSE
    /\ partitionCount = 1
    /\ i = 0
    /\ totalUnprocessedEventCount = 0
    /\ partitionRuntimeInfo \in
           [kind : {"ok"}, BeginningSequenceNumber : 0 .. MaxInt64,
            LastSequenceNumber : 0 .. MaxInt64, LastEnqueuedOffset : {"8"}]
    /\ checkpointReply = [NoReply EXCEPT !.kind = "notFound"]
    /\ unprocessedEventCount = 0
    /\ checkpointFetches = 1
    /\ lagRelatedToPartitionCount = NoLag
    /\ result = NoResult
    /\ exactSum = 0
    /\ nonNegative = TRUE
    /\ streamSummary = NoSummary

\* line 294: the call of GetUnprocessedEventCountWithoutCheckpoint
CallGetUnprocessedEventCountWithoutCheckpoint ==
    /\ pc = "fallback"
    /\ unprocessedEventCount' = GetUnprocessedEventCountWithoutCheckpoint(partitionRuntimeInfo)
    /\ pc' = "fallbackDone"
    /\ UNCHANGED <<streamSummary, metadata, hubErr, partitionCount, i, totalUnprocessedEventCount,
                   partitionRuntimeInfo, checkpointReply, checkpointFetches,
                   lagRelatedToPartitionCount, result, exactSum, nonNegative>>

NextFallback == CallGetUnprocessedEventCountWithoutCheckpoint

SpecFallback == InitFallback /\ [][NextFallback]_vars

----------------------------------------------------------------------------
(* Properties *)

last == partitionRuntimeInfo.LastSequenceNumber

checkpoint == checkpointReply.checkpoint

staleLimit == Wrap(MaxInt64 - metadata.stalePartitionInfoThreshold)

nonEmptyPartition ==
    partitionRuntimeInfo.kind = "ok"
        /\ partitionRuntimeInfo.LastEnqueuedOffset # EmptyPartitionOffset

\* C1: whenever the query succeeds, the lag it reports (after the overflow clamp and
\* the partition cap, before milli-scaling) is >= 0 and <= MaxInt64, whatever the
\* partitions, their runtime states and checkpoints and the configured threshold.
C1_ReportedLagInRange ==
    result.kind = "ok" =>
        /\ Len(result.metrics) = 1
        /\ result.metrics[1] >= 0
        /\ result.metrics[1] <= MaxInt64

\* a successful query whose int64 sum overflowed
C1_Witness ==
    /\ result.kind = "ok"
    /\ partitionCount >= 2
    /\ exactSum > MaxInt64
    /\ result.metrics[1] >= 0

\* C2 as stated: with a non-empty offset and last >= checkpoint.sequenceNumber,
\* calculateUnprocessedEvents returns exactly last - checkpoint.sequenceNumber
\* (taken here for the thresholds >= 0 alone, where it already fails).
C2_PlainDifferenceAlways ==
    (/\ pc = "calcDone"
     /\ metadata.stalePartitionInfoThreshold >= 0
     /\ checkpoint.Offset # ""
     /\ last >= checkpoint.SequenceNumber)
        => unprocessedEventCount = last - checkpoint.SequenceNumber

\* C2 amended: with a non-empty offset and last >= checkpoint.sequenceNumber,
\* calculateUnprocessedEvents returns last - checkpoint.sequenceNumber unless that
\* difference is above MaxInt64 - stalePartitionInfoThreshold (evaluated in int64), and
\* then it returns 0.
C2_PlainDifferenceUnlessStale ==
    (pc = "calcDone" /\ checkpoint.Offset # "" /\ last >= checkpoint.SequenceNumber)
        => unprocessedEventCount =
               IF last - checkpoint.SequenceNumber > staleLimit
               THEN 0
               ELSE last - checkpoint.SequenceNumber

\* a plain difference above the staleness limit, returned as 0
C2_Witness ==
    /\ pc = "calcDone"
    /\ checkpoint.Offset # ""
    /\ last >= checkpoint.SequenceNumber
    /\ metadata.stalePartitionInfoThreshold > 0
    /\ last - checkpoint.SequenceNumber > MaxInt64 - metadata.stalePartitionInfoThreshold
    /\ unprocessedEventCount = 0

\* C3: with a non-empty offset and last < checkpoint.sequenceNumber (both in
\* 0..MaxInt64), the count before the staleness guard is
\* (MaxInt64 - checkpoint.sequenceNumber) + last, that sum does not overflow int64, and
\* when it is not above MaxInt64 - stalePartitionInfoThreshold (evaluated in int64, as
\* the code does) it is the result; checkpoint = MaxInt64 - 15, last = 10 gives 25.
C3_WrappedDistance ==
    (pc = "calcDone" /\ checkpoint.Offset # "" /\ last < checkpoint.SequenceNumber)
        => LET exact == (MaxInt64 - checkpoint.SequenceNumber) + last
           IN  /\ exact \in 0 .. MaxInt64
               /\ rawUnprocessedEventCount(partitionRuntimeInfo, checkpoint) = exact
               /\ (exact <= staleLimit => unprocessedEventCount = exact)
               /\ (/\ checkpoint.SequenceNumber = MaxInt64 - 15
                   /\ last = 10
                   /\ 25 <= staleLimit) => unprocessedEventCount = 25

\* the concrete case: checkpoint = MaxInt64 - 15, last = 10, result 25
C3_Witness ==
    /\ pc = "calcDone"
    /\ checkpoint.Offset # ""
    /\ checkpoint.SequenceNumber = MaxInt64 - 15
    /\ last = 10
    /\ last < checkpoint.SequenceNumber
    /\ unprocessedEventCount = 25

\* C4 as stated: for every checkpoint, a never-checkpointed one included, and every
\* stalePartitionInfoThreshold >= 0, calculateUnprocessedEvents never returns a value
\* above MaxInt64 - stalePartitionInfoThreshold.
C4_NeverAboveStaleLimit ==
    (pc = "calcDone" /\ metadata.stalePartitionInfoThreshold >= 0)
        => unprocessedEventCount <= MaxInt64 - metadata.stalePartitionInfoThreshold

\* C4 amended: for every checkpoint with a non-empty offset and every
\* stalePartitionInfoThreshold >= 0, a count above
\* MaxInt64 - stalePartitionInfoThreshold is returned as exactly 0, so the result is
\* never above MaxInt64 - stalePartitionInfoThreshold.
C4_CheckpointedNeverAboveStaleLimit ==
    (pc = "calcDone" /\ checkpoint.Offset # "" /\ metadata.stalePartitionInfoThreshold >= 0)
        => /\ unprocessedEventCount <= MaxInt64 - metadata.stalePartitionInfoThreshold
           /\ (rawUnprocessedEventCount(partitionRuntimeInfo, checkpoint)
                   > MaxInt64 - metadata.stalePartitionInfoThreshold
               => unprocessedEventCount = 0)

\* a wrapped distance above the staleness limit, returned as 0
C4_Witness ==
    /\ pc = "calcDone"
    /\ checkpoint.Offset # ""
    /\ last < checkpoint.SequenceNumber
    /\ metadata.stalePartitionInfoThreshold > 0
    /\ (MaxInt64 - checkpoint.SequenceNumber) + last
           > MaxInt64 - metadata.stalePartitionInfoThreshold
    /\ unprocessedEventCount = 0

\* C5: when the checkpoint's offset is empty the count is last + 1 (as int64) whatever
\* checkpoint.sequenceNumber is: last = 0 gives 1, and below MaxInt64 the count is the
\* exact last + 1, never the distance to the checkpoint's sequence number.
C5_NeverCheckpointed ==
    (pc = "calcDone" /\ checkpoint.Offset = "")
        => /\ unprocessedEventCount = Wrap(last + 1)
           /\ (last < MaxInt64 => unprocessedEventCount = last + 1)
           /\ (last = 0 => unprocessedEventCount = 1)

\* an empty offset beside a nonzero sequence number, last = 0
C5_Witness ==
    /\ pc = "calcDone"
    /\ checkpoint.Offset = ""
    /\ checkpoint.SequenceNumber = MaxInt64
    /\ last = 0
    /\ unprocessedEventCount = 1

\* C6: a loop iteration over a partition with the empty sentinel ("-1") adds 0, calls
\* the checkpoint store not at all and goes on to the next partition, whatever the
\* store would have answered (a checkpoint, not found, another error).
C6_EmptyPartitionSkipsCheckpoint ==
    [][(/\ pc = "loop"
        /\ i < partitionCount
        /\ partitionRuntimeInfo'.kind = "ok"
        /\ partitionRuntimeInfo'.LastEnqueuedOffset = EmptyPartitionOffset)
       => /\ unprocessedEventCount' = 0
          /\ checkpointFetches' = checkpointFetches
          /\ totalUnprocessedEventCount' = totalUnprocessedEventCount
          /\ result' = result
          /\ pc' = "loop"
          /\ i' = i + 1]_vars

\* an empty partition passed while the checkpoint store was failing
C6_Witness ==
    /\ pc = "loop"
    /\ i >= 1
    /\ partitionRuntimeInfo.kind = "ok"
    /\ partitionRuntimeInfo.LastEnqueuedOffset = EmptyPartitionOffset
    /\ checkpointReply.kind = "error"
    /\ checkpointFetches = 0
    /\ unprocessedEventCount = 0

\* the failures of a query: the enumeration, the runtime state of the partition at
\* hand, or the checkpoint of a non-empty partition with an error other than not found
queryFailed ==
    \/ hubErr
    \/ partitionRuntimeInfo.kind = "error"
    \/ (nonEmptyPartition /\ checkpointReply.kind = "error")

\* C7: the query returns an error exactly when the enumeration fails, a runtime-state
\* fetch fails or the checkpoint fetch of a non-empty partition fails with an error
\* other than not found, and then without a metric and with active = false; on not
\* found the partition adds GetUnprocessedEventCountWithoutCheckpoint and the loop goes
\* on to the next partition.
C7_ErrorsAndFallback ==
    [][/\ queryFailed' <=> (result'.kind = "error")
       /\ result'.kind = "error" =>
              (pc' = "done" /\ result'.metrics = <<>> /\ result'.active = FALSE)
       /\ (/\ pc = "loop"
           /\ i < partitionCount
           /\ nonEmptyPartition'
           /\ checkpointReply'.kind = "notFound")
          => /\ result' = result
             /\ pc' = "loop"
             /\ i' = i + 1
             /\ unprocessedEventCount' =
                    (IF /\ partitionRuntimeInfo'.LastSequenceNumber
                              = partitionRuntimeInfo'.BeginningSequenceNumber
                        /\ partitionRuntimeInfo'.LastSequenceNumber # 0
                     THEN 0
                     ELSE Wrap(partitionRuntimeInfo'.LastSequenceNumber
                                   - partitionRuntimeInfo'.BeginningSequenceNumber + 1))
             /\ totalUnprocessedEventCount' =
                    Wrap(totalUnprocessedEventCount + unprocessedEventCount')]_vars

\* a query aborted by the checkpoint store after partitions had been counted
C7_Witness ==
    /\ result = ErrorResult
    /\ pc = "done"
    /\ nonEmptyPartition
    /\ checkpointReply.kind = "error"
    /\ i >= 1
    /\ exactSum > 0

\* C8: for every totalUnprocessed >= 0, partitionCount >= 0 and threshold, computing
\* the reported lag yields a value, which is partitionCount * threshold when
\* totalUnprocessed / threshold > partitionCount and totalUnprocessed otherwise.
C8_CapAlwaysYieldsValue ==
    pc = "lagDone" =>
        /\ lagRelatedToPartitionCount.panic = FALSE
        /\ lagRelatedToPartitionCount.value =
               IF Quo(totalUnprocessedEventCount, metadata.threshold) > partitionCount
               THEN partitionCount * metadata.threshold
               ELSE totalUnprocessedEventCount

\* C9: whenever the query succeeds, active is true exactly when the aggregate (after
\* the overflow clamp, before the partition cap) is strictly above
\* activationThreshold; the capped lag plays no part.
C9_ActiveIffAboveActivation ==
    result.kind = "ok" =>
        (result.active <=> totalUnprocessedEventCount > metadata.activationThreshold)

\* an active query whose capped lag is not above the activation threshold
C9_Witness ==
    /\ result.kind = "ok"
    /\ result.active
    /\ result.metrics[1] < totalUnprocessedEventCount
    /\ result.metrics[1] <= metadata.activationThreshold

\* C10: with non-negative per-partition counts, the aggregate is never negative, is
\* MaxInt64 whenever the exact sum of the counts exceeds MaxInt64, and is the exact
\* sum when that fits in int64.
C10_AggregateClamped ==
    (pc = "done" /\ result.kind # "error" /\ nonNegative)
        => /\ totalUnprocessedEventCount >= 0
           /\ (exactSum > MaxInt64 => totalUnprocessedEventCount = MaxInt64)
           /\ (exactSum <= MaxInt64 => totalUnprocessedEventCount = exactSum)

beginning == partitionRuntimeInfo.BeginningSequenceNumber

\* C11: GetUnprocessedEventCountWithoutCheckpoint returns 0 when beginning = last and
\* both are nonzero and last - beginning + 1 in every other case ((0,0) gives 1, (5,5)
\* gives 0, (5,9) gives 5), and for 0 <= beginning <= last the result is >= 0.
C11_FallbackCount ==
    pc = "fallbackDone" =>
        /\ unprocessedEventCount =
               IF beginning = last /\ beginning # 0 THEN 0 ELSE last - beginning + 1
        /\ (beginning = 0 /\ last = 0) => unprocessedEventCount = 1
        /\ (beginning = 5 /\ last = 5) => unprocessedEventCount = 0
        /\ (beginning = 5 /\ last = 9) => unprocessedEventCount = 5
        /\ (0 <= beginning /\ beginning <= last) => unprocessedEventCount >= 0

\* C13: for every threshold > 0, partitionCount >= 0 and totalUnprocessed >= 0 the
\* reported lag is at most partitionCount * threshold, so the replica count it implies,
\* the lag divided by the threshold and rounded up, is at most partitionCount (taken
\* here for at least one partition, where it already fails).
C13_LagWithinPartitions ==
    (pc = "lagDone" /\ metadata.threshold > 0 /\ partitionCount >= 1)
        => /\ lagRelatedToPartitionCount.panic = FALSE
           /\ lagRelatedToPartitionCount.value <= partitionCount * metadata.threshold
           /\ (lagRelatedToPartitionCount.value + metadata.threshold - 1)
                  \div metadata.threshold <= partitionCount

\* C12: when DescribeStreamSummary succeeds with n open shards the shard-count query
\* reports exactly one metric, of value n, and active = (n > activationTargetShardCount),
\* strictly; when it fails the query returns the error, no metric and active = false.
C12_ShardCountQuery ==
    pc = "kinesisDone" =>
        /\ streamSummary.kind = "ok" =>
               /\ result.kind = "ok"
               /\ result.metrics = <<streamSummary.OpenShardCount>>
               /\ result.active <=>
                      (streamSummary.OpenShardCount > metadata.activationTargetShardCount)
        /\ streamSummary.kind = "error" =>
               /\ result.kind = "error"
               /\ result.metrics = <<>>
               /\ result.active = FALSE
        /\ streamSummary.kind \in {"ok", "error"}

\* a shard count equal to the activation target, reported and not active
C12_Witness ==
    /\ pc = "kinesisDone"
    /\ streamSummary.kind = "ok"
    /\ streamSummary.OpenShardCount >= 1
    /\ streamSummary.OpenShardCount = metadata.activationTargetShardCount
    /\ result.kind = "ok"
    /\ result.metrics = <<streamSummary.OpenShardCount>>
    /\ result.active = FALSE

====
